---- MODULE Spec2Model ----
(***************************************************************************)
(* The request / authentication / transaction state machine of the         *)
(* UltraDNS REST client (src/ultradns/client.py).                          *)
(*                                                                         *)
(* The client is single threaded: one public method runs at a time.  A     *)
(* public method that reaches the dispatcher (_do_call) is modelled as     *)
(* its invocation step followed by one step per pass through _do_call      *)
(* (the method calls itself again after a token refresh), so that the      *)
(* server's answers are inputs of each pass.                               *)
(***************************************************************************)
EXTENDS Naturals, Sequences, FiniteSets, TLC

(***************************************************************************)
(* Bounds of the model.                                                    *)
(***************************************************************************)
\* Longest queue of pending operations a transaction is let to collect.
MaxQueue == 2
\* Deepest recursion of _do_call (passes after the first) that is explored.
MaxDepth == 2

(***************************************************************************)
(* Program constants.                                                      *)
(***************************************************************************)
ERR_CODE_AUTH_TOKEN_EXPIRED == 60001
ERR_CODE_ZONE_ALREADY_EXISTS == 1802
ERR_CODE_ZONE_NOT_FOUND == 1801
ERR_CODE_PERMISSION_DENIED == 8001
ERR_RECORDS_NOT_FOUND == 70002
ERR_RECORD_ALREADY_EXISTS == 2111
ERR_RECORD_NOT_FOUND == 56001
ERR_HTTP == 111222333
\* requests.codes
BAD_REQUEST == 400
NO_CONTENT == 204
UNAUTHORIZED == 401
\* The statuses of the tests: an accepted request and a gateway timeout.
HTTP_OK == 200
GATEWAY_TIMEOUT == 504

(***************************************************************************)
(* Values.                                                                 *)
(***************************************************************************)
\* access_token = '' until the first login; the server issues an access
\* token together with the refresh token of the same session.
EmptyToken == ""
Tokens == {"t1", "t2"}
RefreshTokenOf(access) == IF access = "t1" THEN "r1" ELSE "r2"

\* Python values handed to _post/_put/_delete as data: None, or a dict.
PyNone == "None"
EmptyDict == "{}"
RecordDict == "record"
ZoneDict == "zone_data"

\* URIs the operations build (one zone, one record type, one owner).
BatchUri == "/v1/batch"
TokenUri == "/v1/authorization/token"
ZonesUri == "/v1/zones"
ZoneUri == "/v1/zones/z"
RRSetsUri == "/v1/zones/z/rrsets"
RRSetsTypeUri == "/v1/zones/z/rrsets/A"
RecordUri == "/v1/zones/z/rrsets/A/o"
AccountsUri == "/v1/accounts"
AccountZonesUri == "/v1/accounts/a/zones"
VersionUri == "/v1/version"
StatusUri == "/v1/status"

\* The search query argument of the listing operations.
Queries == {"None", "q"}

\* json.dumps: None becomes the text null, a dict an object, the queue an
\* array of objects in the order of the list.  NoData is data=None: no body.
NoData == [json |-> "absent", obj |-> "", items |-> << >>]
DumpsValue(data) ==
    IF data = PyNone
    THEN [json |-> "null", obj |-> "", items |-> << >>]
    ELSE [json |-> "object", obj |-> data, items |-> << >>]
DumpsList(queries) == [json |-> "array", obj |-> "", items |-> queries]

\* _build_params: the keyword arguments (none here) plus q when given.
_build_params(query) == IF query = "None" THEN "{}" ELSE "{q}"

(***************************************************************************)
(* Responses of the server.                                                *)
(***************************************************************************)
Msgs == {"m1", "m2"}
\* A wire code exceptions_map does not list.
UnlistedCodes == {9999}
\* The codes a server may send: whatever it sends is looked up in
\* exceptions_map, the key ERR_HTTP included.
WireCodes == {ERR_CODE_AUTH_TOKEN_EXPIRED, ERR_CODE_ZONE_ALREADY_EXISTS,
              ERR_CODE_ZONE_NOT_FOUND, ERR_CODE_PERMISSION_DENIED,
              ERR_RECORDS_NOT_FOUND, ERR_RECORD_ALREADY_EXISTS,
              ERR_RECORD_NOT_FOUND, ERR_HTTP} \cup UnlistedCodes
ErrLists == {<< >>} \cup {<<m>> : m \in Msgs}
              \cup {<<m, n>> : m \in Msgs, n \in Msgs}

\* kind: what response.json() gives: "unparseable" (it raises ValueError),
\* "scalar" (neither list nor dict), "object" (dict), "array" (list whose
\* element 0 is a dict).  has: the keys of the dict: "error" (errorCode and
\* errorMessage), "errors" (the batch errors array), "tokens" (accessToken
\* and refreshToken), "payload" (the keys of a result) or "nothing".
MkBody(kind, has, code, msg, errors, access, refresh, content) ==
    [kind |-> kind, has |-> has, code |-> code, msg |-> msg,
     errors |-> errors, access |-> access, refresh |-> refresh,
     content |-> content]
NoBody == MkBody("none", "nothing", 0, "", << >>, "", "", "")
RawBodies == {MkBody(k, "nothing", 0, "", << >>, "", "", c) :
                k \in {"unparseable", "scalar"}, c \in {"", "raw"}}
\* The error bodies the server is given.  The body with the code of a token
\* expiry comes with one message only: the expiry test reads its code and
\* the decoder copies its message as it copies any other.
ErrorBodies ==
    {b \in {MkBody(k, "error", c, m, << >>, "", "", "json") :
               k \in {"object", "array"}, c \in WireCodes, m \in Msgs} :
        b.code = ERR_CODE_AUTH_TOKEN_EXPIRED => b.msg = "m1"}
BatchErrorBodies == {MkBody("object", "errors", 0, "", es, "", "", "json") :
                        es \in ErrLists}
TokenBodies == {MkBody("object", "tokens", 0, "", << >>, a,
                       RefreshTokenOf(a), "json") : a \in Tokens}
PayloadBodies == {MkBody("object", "payload", 0, "", << >>, "", "", "json")}
Bodies == RawBodies \cup ErrorBodies \cup BatchErrorBodies \cup TokenBodies
            \cup PayloadBodies

Statuses == {HTTP_OK, NO_CONTENT, BAD_REQUEST, UNAUTHORIZED, GATEWAY_TIMEOUT}
MkResponse(status, body) == [status_code |-> status, body |-> body]
NoResponse == MkResponse(0, NoBody)
\* What the resource endpoints answer.  The client reads the status in two
\* places only: the test for 401 and the text of the HTTP-level error, so the
\* JSON error bodies come with 400 and 401 and the gateway's 504 comes with
\* the bodies a gateway writes (none, or text that is not a JSON dict or
\* list).
Responses ==
    {MkResponse(s, b) : s \in {HTTP_OK, NO_CONTENT},
                        b \in RawBodies \cup PayloadBodies}
    \cup {MkResponse(s, b) : s \in {BAD_REQUEST, UNAUTHORIZED},
                             b \in RawBodies \cup ErrorBodies
                                    \cup BatchErrorBodies}
    \cup {MkResponse(GATEWAY_TIMEOUT, b) : b \in RawBodies}
\* What the token endpoint answers: a grant, or a failure whose error body
\* carries the one message.
TokenResponses ==
    {MkResponse(HTTP_OK, b) : b \in TokenBodies}
    \cup {MkResponse(s, b) :
            s \in {BAD_REQUEST, UNAUTHORIZED},
            b \in RawBodies \cup {e \in ErrorBodies : e.msg = "m1"}}

(***************************************************************************)
(* State.                                                                  *)
(***************************************************************************)
VARIABLES
    transaction,    \* UltraDNSClient._transaction
    queries,        \* UltraDNSClient._transaction_queries
    access_token,   \* UltraDNSAuthentication.access_token
    refresh_token,  \* UltraDNSAuthentication._refresh_token
    issued,         \* the write calls _request has queued in the open
                    \* transaction: <<method, url, data>> in call order
    pc,             \* "idle": no public method runs; "do_call": at the
                    \* entry of _do_call
    call,           \* the arguments of the running _do_call and its caller
    depth,          \* how many times the running _do_call called itself
    net,            \* the requests the running public method has sent
    answer,         \* the response that decided how the _do_call that ran
                    \* last ended (the token expiry answer when it called
                    \* itself)
    mark,           \* Len(net) when the running _do_call was entered
    pre,            \* the client's state when the public method was invoked
    last,           \* the public method invoked last and how it ended
    you_connected,      \* a youltradns UltraDNSClient has been constructed
                        \* (its __init__ has authenticated) and is given
                        \* the same calls
    you_transaction,    \* youltradns UltraDNSClient._transaction
    you_queries         \* youltradns UltraDNSClient._transaction_queries

vars == <<transaction, queries, issued, access_token, refresh_token, pc,
          call, depth, net, answer, mark, pre, last, you_connected,
          you_transaction, you_queries>>
txn == <<transaction, queries, issued>>
you == <<you_connected, you_transaction, you_queries>>
you_txn == <<you_transaction, you_queries>>

(***************************************************************************)
(* Exceptions and return values.                                           *)
(***************************************************************************)
\* message: the parts of the message string, in order; errors: the list a
\* TransactionError carries; body: the raw body an AuthenticationError
\* carries.
MkExc(kind, message, errors, body) ==
    [kind |-> kind, message |-> message, errors |-> errors, body |-> body]
NoExc == MkExc("", << >>, << >>, NoBody)
PyError(kind) == MkExc(kind, << >>, << >>, NoBody)
TransactionErrorKind(kind) == MkExc(kind, << >>, << >>, NoBody)

\* t: "None", "True", "json" (the decoded body), "rrSets" (the rrSets
\* entry of the decoded body) or "empty_list".
MkValue(t, body) == [t |-> t, body |-> body]
None == MkValue("None", NoBody)
True == MkValue("True", NoBody)
EmptyList == MkValue("empty_list", NoBody)

\* How a call ends: kind is "return" or "raise".
Return(value) == [kind |-> "return", value |-> value, exc |-> NoExc]
Raise(exc) == [kind |-> "raise", value |-> None, exc |-> exc]

(***************************************************************************)
(* ErrorHandlingMixin.                                                     *)
(***************************************************************************)
_is_error(response) == response.status_code >= BAD_REQUEST

MappedCodes == {ERR_CODE_PERMISSION_DENIED, ERR_CODE_ZONE_NOT_FOUND,
                ERR_CODE_ZONE_ALREADY_EXISTS, ERR_RECORD_ALREADY_EXISTS,
                ERR_RECORDS_NOT_FOUND, ERR_RECORD_NOT_FOUND, ERR_HTTP}
\* exceptions_map with the bug of giving ERR_RECORD_NOT_FOUND the class of
\* the line copied for it.
exceptions_map_copied_line(error_code) ==
    CASE error_code = ERR_CODE_PERMISSION_DENIED -> "PermissionDeniedError"
      [] error_code = ERR_CODE_ZONE_NOT_FOUND -> "ZoneNotFoundError"
      [] error_code = ERR_CODE_ZONE_ALREADY_EXISTS -> "ZoneAlreadyExistsError"
      [] error_code = ERR_RECORD_ALREADY_EXISTS -> "RecordAlreadyExistsError"
      [] error_code = ERR_RECORDS_NOT_FOUND -> "RecordsNotFoundError"
      [] error_code = ERR_RECORD_NOT_FOUND -> "RecordAlreadyExistsError"
      [] error_code = ERR_HTTP -> "HTTPLevelError"

exceptions_map(error_code) ==
    CASE error_code = ERR_CODE_PERMISSION_DENIED -> "PermissionDeniedError"
      [] error_code = ERR_CODE_ZONE_NOT_FOUND -> "ZoneNotFoundError"
      [] error_code = ERR_CODE_ZONE_ALREADY_EXISTS -> "ZoneAlreadyExistsError"
      [] error_code = ERR_RECORD_ALREADY_EXISTS -> "RecordAlreadyExistsError"
      [] error_code = ERR_RECORDS_NOT_FOUND -> "RecordsNotFoundError"
      [] error_code = ERR_RECORD_NOT_FOUND -> "RecordsNotFoundError"
      [] error_code = ERR_HTTP -> "HTTPLevelError"

\* The exception _handle_error raises for a response (it never returns).
_handle_error(response) ==
    LET json_body == response.body
        isTable == json_body.kind \in {"array", "object"}
        error_code == IF isTable THEN json_body.code ELSE ERR_HTTP
        error_msg ==
            IF isTable
            THEN <<json_body.msg>>
            ELSE <<"\nHTTP-level error. HTTP code: ",
                   ToString(response.status_code),
                   "; response body: ", json_body.content>>
    IN  IF json_body.kind = "unparseable" THEN PyError("ValueError")
        ELSE IF isTable /\ json_body.has # "error" THEN PyError("KeyError")
        ELSE IF error_code \in MappedCodes
        THEN MkExc(exceptions_map(error_code), error_msg, << >>, NoBody)
        ELSE MkExc("DNSError",
                   <<ToString(error_code), ": ">> \o error_msg, << >>, NoBody)

(***************************************************************************)
(* The requests sent, as the transport sees them.                          *)
(***************************************************************************)
\* requests sends the method in upper case.
Upper(method) == IF method = "post" THEN "POST" ELSE method

\* grant: the grant_type of a call to the token endpoint, "" otherwise;
\* auth: the token of the Authorization header, "" when there is no header;
\* result: how it was answered: "success", "expired" (a token expiry
\* answer) or "error"; accepted: the answer, when it is an accepted answer
\* to a resource request, NoResponse otherwise.
MkRequest(method, url, grant, params, data, auth, response, result) ==
    [method |-> Upper(method), url |-> url, grant |-> grant,
     params |-> params, data |-> data, auth |-> auth, result |-> result,
     accepted |-> IF grant = "" /\ result = "success" THEN response
                  ELSE NoResponse]
TokenRequest(grant, response) ==
    MkRequest("POST", TokenUri, grant, "None", NoData, "", response,
              IF response.status_code < BAD_REQUEST THEN "success"
              ELSE "error")

(***************************************************************************)
(* UltraDNSAuthentication.                                                 *)
(***************************************************************************)
\* What a call of the token endpoint leaves: the tokens, or an exception.
AuthResult(raised, exc, access, refresh) ==
    [raised |-> raised, exc |-> exc, access_token |-> access,
     refresh_token |-> refresh]

\* json_body[u'accessToken'] of an accepted answer.
TokenFieldsError(json_body) ==
    IF json_body.kind = "object" THEN "KeyError" ELSE "TypeError"

authenticate(response) ==
    LET json_body == response.body
    IN  IF json_body.kind = "unparseable"
        THEN AuthResult(TRUE, PyError("ValueError"), access_token,
                        refresh_token)
        ELSE IF response.status_code < BAD_REQUEST
        THEN IF json_body.kind = "object" /\ json_body.has = "tokens"
             THEN AuthResult(FALSE, NoExc, json_body.access,
                             json_body.refresh)
             ELSE AuthResult(TRUE, PyError(TokenFieldsError(json_body)),
                             access_token, refresh_token)
        ELSE AuthResult(TRUE, _handle_error(response), access_token,
                        refresh_token)

\* is_authenticated with the bug of testing the token, which starts as the
\* empty string, against None.
is_authenticated_is_not_none == TRUE

is_authenticated == access_token # EmptyToken

\* is_auth_token_expired with the bug of not looking at the status.
is_auth_token_expired_any_status(response) ==
    LET json_body == response.body
    IN  IF json_body.kind = "unparseable" THEN "ValueError"
        ELSE IF /\ json_body.kind = "object"
                /\ json_body.has = "error"
                /\ json_body.code = ERR_CODE_AUTH_TOKEN_EXPIRED
        THEN "True"
        ELSE "False"

\* "True", "False", or "ValueError" when response.json() raises.
is_auth_token_expired(response) ==
    IF response.status_code = UNAUTHORIZED
    THEN IF response.body.kind = "unparseable" THEN "ValueError"
         ELSE IF /\ response.body.kind = "object"
                 /\ response.body.has = "error"
                 /\ response.body.code = ERR_CODE_AUTH_TOKEN_EXPIRED
         THEN "True"
         ELSE "False"
    ELSE "False"

\* refresh_auth_token with the bug of storing the access token alone.
refresh_auth_token_keeps_refresh(response) ==
    LET json_body == response.body
    IN  IF json_body.kind = "unparseable"
        THEN AuthResult(TRUE, PyError("ValueError"), access_token,
                        refresh_token)
        ELSE IF response.status_code < BAD_REQUEST
        THEN IF json_body.kind = "object" /\ json_body.has = "tokens"
             THEN AuthResult(FALSE, NoExc, json_body.access, refresh_token)
             ELSE AuthResult(TRUE, PyError(TokenFieldsError(json_body)),
                             access_token, refresh_token)
        ELSE AuthResult(TRUE,
                        MkExc("AuthenticationError", << >>, << >>, json_body),
                        access_token, refresh_token)

refresh_auth_token(response) ==
    LET json_body == response.body
    IN  IF json_body.kind = "unparseable"
        THEN AuthResult(TRUE, PyError("ValueError"), access_token,
                        refresh_token)
        ELSE IF response.status_code < BAD_REQUEST
        THEN IF json_body.kind = "object" /\ json_body.has = "tokens"
             THEN AuthResult(FALSE, NoExc, json_body.access,
                             json_body.refresh)
             ELSE AuthResult(TRUE, PyError(TokenFieldsError(json_body)),
                             access_token, refresh_token)
        ELSE AuthResult(TRUE,
                        MkExc("AuthenticationError", << >>, << >>, json_body),
                        access_token, refresh_token)

(***************************************************************************)
(* UltraDNSClient: the transaction queue.                                  *)
(***************************************************************************)
_get_transaction_query_body(method, url, data) ==
    [method |-> Upper(method), uri |-> url,
     body |-> IF data = PyNone \/ data = EmptyDict THEN EmptyDict ELSE data]

\* _end_transaction with the bug of resetting the flag alone.
_end_transaction_keeps_queries ==
    IF ~transaction
    THEN [raised |-> TRUE, transaction |-> transaction, queries |-> queries]
    ELSE [raised |-> FALSE, transaction |-> FALSE, queries |-> queries]

\* _end_transaction: what it leaves of the flag and the queue, and whether
\* it raises NoActiveTransactionError.
_end_transaction ==
    IF ~transaction
    THEN [raised |-> TRUE, transaction |-> transaction, queries |-> queries]
    ELSE [raised |-> FALSE, transaction |-> FALSE, queries |-> << >>]

\* _handle_transaction_error: the exception it raises for a response.
_handle_transaction_error(response) ==
    LET json_body == response.body
    IN  IF json_body.kind = "unparseable" THEN PyError("ValueError")
        ELSE IF json_body.kind # "object" THEN PyError("TypeError")
        ELSE IF json_body.has # "errors" THEN PyError("KeyError")
        ELSE MkExc("TransactionError", << >>, json_body.errors, NoBody)

\* _build_headers with the bug of sending the refresh token.
_build_headers_refresh_token(token) == RefreshTokenOf(token)

_build_headers(token) == token

(***************************************************************************)
(* UltraDNSClient: the dispatcher.                                         *)
(***************************************************************************)
MkCall(op, phase, method, url, params, data) ==
    [op |-> op, phase |-> phase, method |-> method, url |-> url,
     params |-> params, data |-> data]
NoCall == MkCall("", "", "", "", "None", NoData)

\* What one pass through _do_call leaves: the tokens, the requests it
\* sent, and how it ends: "return", "raise", or "again" when it calls
\* itself after a refresh.
Pass(access, refresh, sent, end, outcome, decisive) ==
    [access_token |-> access, refresh_token |-> refresh, sent |-> sent,
     end |-> end, outcome |-> outcome, answer |-> decisive]

ResourceRequest(token, response) ==
    MkRequest(call.method, call.url, "", call.params, call.data,
              _build_headers(token), response,
              IF ~_is_error(response) THEN "success"
              ELSE IF is_auth_token_expired(response) = "True" THEN "expired"
              ELSE "error")

\* _do_call with the bug of decoding the error of a batch before looking
\* for a token expiry.
_do_call_decodes_first(authResponse, response, refreshResponse) ==
    LET login == IF ~is_authenticated THEN authenticate(authResponse)
                 ELSE AuthResult(FALSE, NoExc, access_token, refresh_token)
        loginSent == IF ~is_authenticated
                     THEN <<TokenRequest("password", authResponse)>>
                     ELSE << >>
        sent == loginSent \o <<ResourceRequest(login.access_token, response)>>
        expired == is_auth_token_expired(response)
        refresh == refresh_auth_token(refreshResponse)
        refreshSent == sent \o <<TokenRequest("refresh_token",
                                              refreshResponse)>>
        Ends(outcome) == Pass(login.access_token, login.refresh_token, sent,
                              outcome.kind, outcome, response)
    IN  IF login.raised
        THEN Pass(access_token, refresh_token, loginSent, "raise",
                  Raise(login.exc), authResponse)
        ELSE IF response.status_code = NO_CONTENT THEN Ends(Return(None))
        ELSE IF _is_error(response)
        THEN IF expired = "ValueError"
             THEN Ends(Raise(PyError("ValueError")))
             ELSE IF transaction
             THEN Ends(Raise(_handle_transaction_error(response)))
             ELSE IF expired = "True"
             THEN IF refresh.raised
                  THEN Pass(login.access_token, login.refresh_token,
                            refreshSent, "raise", Raise(refresh.exc),
                            refreshResponse)
                  ELSE Pass(refresh.access_token, refresh.refresh_token,
                            refreshSent, "again", Return(None),
                            response)
             ELSE Ends(Raise(_handle_error(response)))
        ELSE IF response.body.kind = "unparseable" THEN Ends(Return(True))
        ELSE Ends(Return(MkValue("json", response.body)))

\* _do_call with the bug of parsing the body of a 204 answer.
_do_call_parses_no_content(authResponse, response, refreshResponse) ==
    LET login == IF ~is_authenticated THEN authenticate(authResponse)
                 ELSE AuthResult(FALSE, NoExc, access_token, refresh_token)
        loginSent == IF ~is_authenticated
                     THEN <<TokenRequest("password", authResponse)>>
                     ELSE << >>
        sent == loginSent \o <<ResourceRequest(login.access_token, response)>>
        expired == is_auth_token_expired(response)
        refresh == refresh_auth_token(refreshResponse)
        refreshSent == sent \o <<TokenRequest("refresh_token",
                                              refreshResponse)>>
        Ends(outcome) == Pass(login.access_token, login.refresh_token, sent,
                              outcome.kind, outcome, response)
    IN  IF login.raised
        THEN Pass(access_token, refresh_token, loginSent, "raise",
                  Raise(login.exc), authResponse)
        ELSE IF _is_error(response)
        THEN IF expired = "ValueError"
             THEN Ends(Raise(PyError("ValueError")))
             ELSE IF expired = "True"
             THEN IF refresh.raised
                  THEN Pass(login.access_token, login.refresh_token,
                            refreshSent, "raise", Raise(refresh.exc),
                            refreshResponse)
                  ELSE Pass(refresh.access_token, refresh.refresh_token,
                            refreshSent, "again", Return(None),
                            response)
             ELSE IF transaction
             THEN Ends(Raise(_handle_transaction_error(response)))
             ELSE Ends(Raise(_handle_error(response)))
        ELSE IF response.body.kind = "unparseable" THEN Ends(Return(True))
        ELSE Ends(Return(MkValue("json", response.body)))

\* One pass through _do_call, the server answering authResponse to the
\* login (when there is one), response to the request and refreshResponse
\* to the refresh (when there is one).
_do_call(authResponse, response, refreshResponse) ==
    LET login == IF ~is_authenticated THEN authenticate(authResponse)
                 ELSE AuthResult(FALSE, NoExc, access_token, refresh_token)
        loginSent == IF ~is_authenticated
                     THEN <<TokenRequest("password", authResponse)>>
                     ELSE << >>
        sent == loginSent \o <<ResourceRequest(login.access_token, response)>>
        expired == is_auth_token_expired(response)
        refresh == refresh_auth_token(refreshResponse)
        refreshSent == sent \o <<TokenRequest("refresh_token",
                                              refreshResponse)>>
        Ends(outcome) == Pass(login.access_token, login.refresh_token, sent,
                              outcome.kind, outcome, response)
    IN  IF login.raised
        THEN Pass(access_token, refresh_token, loginSent, "raise",
                  Raise(login.exc), authResponse)
        ELSE IF response.status_code = NO_CONTENT THEN Ends(Return(None))
        ELSE IF _is_error(response)
        THEN IF expired = "ValueError"
             THEN Ends(Raise(PyError("ValueError")))
             ELSE IF expired = "True"
             THEN IF refresh.raised
                  THEN Pass(login.access_token, login.refresh_token,
                            refreshSent, "raise", Raise(refresh.exc),
                            refreshResponse)
                  ELSE Pass(refresh.access_token, refresh.refresh_token,
                            refreshSent, "again", Return(None),
                            response)
             ELSE IF transaction
             THEN Ends(Raise(_handle_transaction_error(response)))
             ELSE Ends(Raise(_handle_error(response)))
        ELSE IF response.body.kind = "unparseable" THEN Ends(Return(True))
        ELSE Ends(Return(MkValue("json", response.body)))

(***************************************************************************)
(* youltradns.client.UltraDNSClient given the same calls: its transaction  *)
(* flag and queue.  Its __init__ has authenticated and stored the account  *)
(* name, and its _do_call touches neither the flag nor the queue.          *)
(***************************************************************************)
you_get_transaction_query_body(method, url, data) ==
    [method |-> Upper(method), uri |-> url, body |-> data]

you_request(method, url, data) ==
    IF you_transaction
    THEN /\ you_queries' = Append(you_queries,
                                  you_get_transaction_query_body(method, url,
                                                                 data))
         /\ UNCHANGED you_transaction
    ELSE UNCHANGED you_txn

you_start_transaction ==
    IF you_transaction
    THEN UNCHANGED you_txn
    ELSE /\ you_queries' = << >>
         /\ you_transaction' = TRUE

\* commit_transaction: _run_transaction_queries ends the transaction in
\* its finally clause, however the batch call ends.
you_commit_transaction ==
    IF ~you_transaction \/ you_queries = << >>
    THEN UNCHANGED you_txn
    ELSE /\ you_queries' = << >>
         /\ you_transaction' = FALSE

you_rollback_transaction ==
    IF ~you_transaction
    THEN UNCHANGED you_txn
    ELSE /\ you_queries' = << >>
         /\ you_transaction' = FALSE

\* The public method op of the youltradns client.
you_method(op) ==
    CASE op = "create_primary_zone" -> you_request("POST", ZonesUri, ZoneDict)
      [] op = "delete_zone" -> you_request("DELETE", ZoneUri, PyNone)
      [] op = "create_record" -> you_request("POST", RecordUri, RecordDict)
      [] op = "edit_record" -> you_request("PUT", RecordUri, RecordDict)
      [] op = "delete_record" -> you_request("DELETE", RecordUri, PyNone)
      [] op = "start_transaction" -> you_start_transaction
      [] op = "commit_transaction" -> you_commit_transaction
      [] op = "rollback_transaction" -> you_rollback_transaction
      [] OTHER -> UNCHANGED you_txn

\* The youltradns client, when there is one, is given the call op too; the
\* two clients are given a further call only as long as their flags and
\* the lengths of their queues agree.
you_call(op) ==
    /\ UNCHANGED you_connected
    /\ IF you_connected
       THEN /\ you_transaction = transaction
            /\ Len(you_queries) = Len(queries)
            /\ you_method(op)
       ELSE UNCHANGED you_txn

\* The transaction error the method op of the youltradns client raises
\* before it sends anything, "" when it raises none.
you_raises(op) ==
    CASE op = "start_transaction" ->
            IF you_transaction THEN "TransactionAlreadyInProgressError"
            ELSE ""
      [] op \in {"commit_transaction", "rollback_transaction"} ->
            IF ~you_transaction THEN "NoActiveTransactionError"
            ELSE IF op = "commit_transaction" /\ you_queries = << >>
            THEN "EmptyTransactionError"
            ELSE ""
      [] op \in {"get_zones_of_account", "get_zone_metadata", "get_records",
                 "get_account_details", "version", "status"} ->
            IF you_transaction THEN "GetInsideTransactionError" ELSE ""
      [] OTHER -> ""

(***************************************************************************)
(* The steps of a public method.                                           *)
(***************************************************************************)
Snapshot ==
    [transaction |-> transaction, queries |-> queries, issued |-> issued,
     access_token |-> access_token, refresh_token |-> refresh_token]
\* inner: how the _do_call that ended last within the method ended.
MkLast(op, outcome, inner) ==
    [op |-> op, kind |-> outcome.kind, value |-> outcome.value,
     exc |-> outcome.exc, inner |-> inner]
Running == [kind |-> "running", value |-> None, exc |-> NoExc]

\* The method op ends without reaching the dispatcher.
EndsLocally(op, outcome) ==
    /\ pc' = "idle"
    /\ call' = NoCall
    /\ depth' = 0
    /\ net' = << >>
    /\ answer' = NoResponse
    /\ mark' = 0
    /\ pre' = Snapshot
    /\ last' = MkLast(op, outcome, Running)
    /\ you_call(op)
    /\ UNCHANGED <<access_token, refresh_token>>

\* The method op enters _do_call with the arguments c.
Enters(op, c) ==
    /\ pc' = "do_call"
    /\ call' = c
    /\ depth' = 0
    /\ net' = << >>
    /\ answer' = NoResponse
    /\ mark' = 0
    /\ pre' = Snapshot
    /\ last' = MkLast(op, Running, Running)
    /\ you_call(op)
    /\ UNCHANGED <<txn, access_token, refresh_token>>

\* _get with the bug of not looking at the transaction flag.
_get_unguarded(op, phase, url, params) ==
    Enters(op, MkCall(op, phase, "GET", url, params, NoData))

_get(op, phase, url, params) ==
    IF transaction
    THEN /\ EndsLocally(op, Raise(TransactionErrorKind(
                                    "GetInsideTransactionError")))
         /\ UNCHANGED txn
    ELSE Enters(op, MkCall(op, phase, "GET", url, params, NoData))

\* _request with the bug of queueing at the head instead of the tail.
_request_prepends(op, method, url, data) ==
    IF transaction
    THEN /\ Len(queries) < MaxQueue
         /\ queries' = <<_get_transaction_query_body(method, url, data)>>
                            \o queries
         /\ issued' = Append(issued, <<method, url, data>>)
         /\ UNCHANGED transaction
         /\ EndsLocally(op, Return(None))
    ELSE Enters(op, MkCall(op, "", method, url, "None", DumpsValue(data)))

\* _request with the bug of not looking at the transaction flag.
_request_unguarded(op, method, url, data) ==
    Enters(op, MkCall(op, "", method, url, "None", DumpsValue(data)))

_request(op, method, url, data) ==
    IF transaction
    THEN /\ Len(queries) < MaxQueue
         /\ queries' = Append(queries,
                              _get_transaction_query_body(method, url, data))
         /\ issued' = Append(issued, <<method, url, data>>)
         /\ UNCHANGED transaction
         /\ EndsLocally(op, Return(None))
    ELSE Enters(op, MkCall(op, "", method, url, "None", DumpsValue(data)))

_post(op, url, data) == _request(op, "POST", url, data)
_put(op, url, data) == _request(op, "PUT", url, data)
_delete(op, url) == _request(op, "DELETE", url, PyNone)

\* The property _account_name: get_account_details(), whose result
\* create_primary_zone subscripts before it posts.
_account_name(op) == _get(op, "account_name", AccountsUri, "None")

create_primary_zone ==
    /\ pc = "idle"
    /\ _account_name("create_primary_zone")

get_zones_of_account ==
    /\ pc = "idle"
    /\ \E query \in Queries :
          _get("get_zones_of_account", "", AccountZonesUri,
               _build_params(query))

get_zone_metadata ==
    /\ pc = "idle"
    /\ _get("get_zone_metadata", "", ZoneUri, "None")

delete_zone ==
    /\ pc = "idle"
    /\ _delete("delete_zone", ZoneUri)

get_records ==
    /\ pc = "idle"
    /\ \E rtype \in {"None", "A"}, query \in Queries :
          _get("get_records", "",
               IF rtype = "None" THEN RRSetsUri ELSE RRSetsTypeUri,
               _build_params(query))

create_record ==
    /\ pc = "idle"
    /\ _post("create_record", RecordUri, RecordDict)

edit_record ==
    /\ pc = "idle"
    /\ _put("edit_record", RecordUri, RecordDict)

delete_record ==
    /\ pc = "idle"
    /\ _delete("delete_record", RecordUri)

get_account_details ==
    /\ pc = "idle"
    /\ _get("get_account_details", "", AccountsUri, "None")

version ==
    /\ pc = "idle"
    /\ _get("version", "", VersionUri, "None")

status ==
    /\ pc = "idle"
    /\ _get("status", "", StatusUri, "None")

\* start_transaction with the bug of clearing the queue before the check.
start_transaction_clears_first ==
    /\ pc = "idle"
    /\ queries' = << >>
    /\ issued' = << >>
    /\ IF transaction
       THEN /\ EndsLocally("start_transaction", Raise(TransactionErrorKind(
                                "TransactionAlreadyInProgressError")))
            /\ UNCHANGED transaction
       ELSE /\ transaction' = TRUE
            /\ EndsLocally("start_transaction", Return(None))

start_transaction ==
    /\ pc = "idle"
    /\ IF transaction
       THEN /\ EndsLocally("start_transaction", Raise(TransactionErrorKind(
                                "TransactionAlreadyInProgressError")))
            /\ UNCHANGED txn
       ELSE /\ queries' = << >>
            /\ transaction' = TRUE
            /\ issued' = << >>
            /\ EndsLocally("start_transaction", Return(None))

\* _run_transaction_queries: the batch call that commit_transaction makes.
_run_transaction_queries ==
    Enters("commit_transaction",
           MkCall("commit_transaction", "", "post", BatchUri, "None",
                  DumpsList(queries)))

\* commit_transaction with the bug of ending an empty transaction before
\* it raises.
commit_transaction_ends_empty ==
    /\ pc = "idle"
    /\ IF ~transaction
       THEN /\ EndsLocally("commit_transaction", Raise(TransactionErrorKind(
                                "NoActiveTransactionError")))
            /\ UNCHANGED txn
       ELSE IF queries = << >>
       THEN /\ EndsLocally("commit_transaction", Raise(TransactionErrorKind(
                                "EmptyTransactionError")))
            /\ transaction' = FALSE
            /\ UNCHANGED <<queries, issued>>
       ELSE _run_transaction_queries

\* commit_transaction with the bug of looking at the queue before the flag.
commit_transaction_checks_queue_first ==
    /\ pc = "idle"
    /\ IF queries = << >>
       THEN /\ EndsLocally("commit_transaction", Raise(TransactionErrorKind(
                                "EmptyTransactionError")))
            /\ UNCHANGED txn
       ELSE IF ~transaction
       THEN /\ EndsLocally("commit_transaction", Raise(TransactionErrorKind(
                                "NoActiveTransactionError")))
            /\ UNCHANGED txn
       ELSE _run_transaction_queries

commit_transaction ==
    /\ pc = "idle"
    /\ IF ~transaction
       THEN /\ EndsLocally("commit_transaction", Raise(TransactionErrorKind(
                                "NoActiveTransactionError")))
            /\ UNCHANGED txn
       ELSE IF queries = << >>
       THEN /\ EndsLocally("commit_transaction", Raise(TransactionErrorKind(
                                "EmptyTransactionError")))
            /\ UNCHANGED txn
       ELSE _run_transaction_queries

\* rollback_transaction with the bug of discarding the queue alone.
rollback_transaction_keeps_flag ==
    /\ pc = "idle"
    /\ IF ~transaction
       THEN /\ EndsLocally("rollback_transaction", Raise(TransactionErrorKind(
                                "NoActiveTransactionError")))
            /\ UNCHANGED txn
       ELSE /\ queries' = << >>
            /\ issued' = << >>
            /\ UNCHANGED transaction
            /\ EndsLocally("rollback_transaction", Return(None))

\* rollback_transaction with the bug of submitting the queue as
\* commit_transaction does.
rollback_transaction_sends ==
    /\ pc = "idle"
    /\ IF ~transaction
       THEN /\ EndsLocally("rollback_transaction", Raise(TransactionErrorKind(
                                "NoActiveTransactionError")))
            /\ UNCHANGED txn
       ELSE Enters("rollback_transaction",
                   MkCall("rollback_transaction", "", "post", BatchUri,
                          "None", DumpsList(queries)))

rollback_transaction ==
    /\ pc = "idle"
    /\ IF ~transaction
       THEN /\ EndsLocally("rollback_transaction", Raise(TransactionErrorKind(
                                "NoActiveTransactionError")))
            /\ UNCHANGED txn
       ELSE /\ transaction' = _end_transaction.transaction
            /\ queries' = _end_transaction.queries
            /\ issued' = IF _end_transaction.raised THEN issued ELSE << >>
            /\ EndsLocally("rollback_transaction",
                           IF _end_transaction.raised
                           THEN Raise(TransactionErrorKind(
                                    "NoActiveTransactionError"))
                           ELSE Return(None))

(***************************************************************************)
(* What the caller of _do_call does with its outcome.                      *)
(***************************************************************************)
\* value[u'accounts'][0][u'accountName'] and value['rrSets'].
Subscript(value, t) ==
    IF value.t = "json" /\ value.body.kind = "object"
    THEN IF value.body.has = "payload" THEN Return(MkValue(t, value.body))
         ELSE Raise(PyError("KeyError"))
    ELSE Raise(PyError("TypeError"))

\* AfterCall with the bug of get_records lacking its except clause.
AfterCall_no_except(outcome) ==
    IF outcome.kind # "return" THEN outcome
    ELSE IF call.op = "get_records"
    THEN Subscript(outcome.value, "rrSets")
    ELSE IF call.op = "create_primary_zone" /\ call.phase = "account_name"
    THEN Subscript(outcome.value, "accountName")
    ELSE IF /\ call.op \in {"create_primary_zone", "delete_zone",
                            "create_record"}
            /\ call.phase = ""
    THEN Return(None)
    ELSE outcome

\* The outcome of the public method, given the outcome of its _do_call.
AfterCall(outcome) ==
    CASE call.op = "get_records" ->
            IF outcome.kind = "return"
            THEN Subscript(outcome.value, "rrSets")
            ELSE IF outcome.exc.kind = "RecordsNotFoundError"
            THEN Return(EmptyList)
            ELSE outcome
      [] call.op = "create_primary_zone" /\ call.phase = "account_name" ->
            IF outcome.kind = "return"
            THEN Subscript(outcome.value, "accountName")
            ELSE outcome
      [] call.op \in {"create_primary_zone", "delete_zone", "create_record"}
         /\ call.phase = "" ->
            IF outcome.kind = "return" THEN Return(None) ELSE outcome
      [] OTHER -> outcome

\* The public method ends, its _do_call having ended with inner.
Ends(outcome, inner) ==
    /\ pc' = "idle"
    /\ call' = NoCall
    /\ depth' = 0
    /\ last' = MkLast(call.op, outcome, inner)
    /\ UNCHANGED <<mark, pre>>

\* _run_transaction_queries with the bug of ending the transaction after
\* the try statement instead of in a finally clause.
_run_transaction_queries_no_finally(outcome) ==
    IF outcome.kind = "return"
    THEN /\ transaction' = _end_transaction.transaction
         /\ queries' = _end_transaction.queries
         /\ issued' = IF _end_transaction.raised THEN issued ELSE << >>
         /\ Ends(IF _end_transaction.raised
                 THEN Raise(TransactionErrorKind("NoActiveTransactionError"))
                 ELSE outcome, outcome)
    ELSE /\ Ends(outcome, outcome)
         /\ UNCHANGED txn

\* The finally clause of _run_transaction_queries, the batch call having
\* ended with outcome: _end_transaction, whose exception replaces outcome.
_run_transaction_queries_finally(outcome) ==
    /\ transaction' = _end_transaction.transaction
    /\ queries' = _end_transaction.queries
    /\ issued' = IF _end_transaction.raised THEN issued ELSE << >>
    /\ Ends(IF _end_transaction.raised
            THEN Raise(TransactionErrorKind("NoActiveTransactionError"))
            ELSE outcome, outcome)

\* _do_call has ended with outcome: the rest of the public method.
Complete(outcome) ==
    IF call.op = "commit_transaction"
    THEN _run_transaction_queries_finally(outcome)
    ELSE IF /\ call.op = "create_primary_zone"
            /\ call.phase = "account_name"
            /\ AfterCall(outcome).kind = "return"
    THEN \* self._post('/v1/zones', zone_data)
         IF transaction
         THEN /\ queries' = Append(queries, _get_transaction_query_body(
                                       "POST", ZonesUri, ZoneDict))
              /\ issued' = Append(issued, <<"POST", ZonesUri, ZoneDict>>)
              /\ UNCHANGED transaction
              /\ Ends(Return(None), outcome)
         ELSE /\ pc' = "do_call"
              /\ call' = MkCall(call.op, "", "POST", ZonesUri, "None",
                                DumpsValue(ZoneDict))
              /\ depth' = 0
              /\ mark' = Len(net')
              /\ last' = [last EXCEPT !.inner = outcome]
              /\ UNCHANGED <<txn, pre>>
    ELSE /\ Ends(AfterCall(outcome), outcome)
         /\ UNCHANGED txn

\* The recursive call with the bug of not passing data on.
_do_call_again_drops_data ==
    /\ pc' = "do_call"
    /\ depth' = depth + 1
    /\ call' = [call EXCEPT !.data = NoData]
    /\ UNCHANGED <<txn, mark, pre, last>>

\* return self._do_call(method, url, params, data): the same call again.
_do_call_again ==
    /\ pc' = "do_call"
    /\ depth' = depth + 1
    /\ UNCHANGED <<txn, call, mark, pre, last>>

\* One pass through _do_call and, when it ends, the rest of the public
\* method.  The server may answer anything; a further token expiry answer
\* is explored only down to MaxDepth nested calls.
DoCall ==
    /\ pc = "do_call"
    /\ \E authResponse \in IF is_authenticated THEN {NoResponse}
                            ELSE TokenResponses :
       \E response \in IF authenticate(authResponse).raised
                            /\ ~is_authenticated
                        THEN {NoResponse}
                        ELSE {r \in Responses :
                                \/ depth < MaxDepth
                                \/ is_auth_token_expired(r) # "True"} :
       \E refreshResponse \in IF is_auth_token_expired(response) = "True"
                               THEN TokenResponses ELSE {NoResponse} :
          LET p == _do_call(authResponse, response, refreshResponse)
          IN  /\ access_token' = p.access_token
              /\ refresh_token' = p.refresh_token
              /\ net' = net \o p.sent
              /\ answer' = p.answer
              /\ UNCHANGED you
              /\ IF p.end = "again" THEN _do_call_again
                 ELSE Complete(p.outcome)

(***************************************************************************)
(* The specification.                                                      *)
(***************************************************************************)
Init ==
    /\ transaction = FALSE
    /\ queries = << >>
    /\ access_token = EmptyToken
    /\ refresh_token = EmptyToken
    /\ pc = "idle"
    /\ call = NoCall
    /\ depth = 0
    /\ net = << >>
    /\ answer = NoResponse
    /\ mark = 0
    /\ you_connected = FALSE
    /\ you_transaction = FALSE
    /\ you_queries = << >>
    /\ issued = << >>
    /\ pre = [transaction |-> FALSE, queries |-> << >>, issued |-> << >>,
              access_token |-> EmptyToken, refresh_token |-> EmptyToken]
    /\ last = MkLast("__init__", Return(None), Running)

\* The same, next to a youltradns client constructed with the same server.
InitPair ==
    /\ transaction = FALSE
    /\ queries = << >>
    /\ access_token = EmptyToken
    /\ refresh_token = EmptyToken
    /\ pc = "idle"
    /\ call = NoCall
    /\ depth = 0
    /\ net = << >>
    /\ answer = NoResponse
    /\ mark = 0
    /\ you_connected = TRUE
    /\ you_transaction = FALSE
    /\ you_queries = << >>
    /\ issued = << >>
    /\ pre = [transaction |-> FALSE, queries |-> << >>, issued |-> << >>,
              access_token |-> EmptyToken, refresh_token |-> EmptyToken]
    /\ last = MkLast("__init__", Return(None), Running)

Next ==
    \/ create_primary_zone
    \/ get_zones_of_account
    \/ get_zone_metadata
    \/ delete_zone
    \/ get_records
    \/ create_record
    \/ edit_record
    \/ delete_record
    \/ get_account_details
    \/ version
    \/ status
    \/ start_transaction
    \/ commit_transaction
    \/ rollback_transaction
    \/ DoCall

Spec == Init /\ [][Next]_vars
SpecPair == InitPair /\ [][Next]_vars

(***************************************************************************)
(* Properties.                                                             *)
(***************************************************************************)
ReadOps == {"get_zones_of_account", "get_zone_metadata", "get_records",
            "get_account_details", "version", "status"}
WriteOps == {"create_primary_zone", "delete_zone", "create_record",
             "edit_record", "delete_record"}

\* The methods that do nothing with the result of their _do_call but
\* return it or drop it.
PassThroughOps == (ReadOps \cup WriteOps \cup {"commit_transaction"})
                    \ {"get_records", "create_primary_zone"}

\* The requests of the running (or last) _do_call, in order.
CallLog == SubSeq(net, mark + 1, Len(net))

\* commit_transaction, invoked on an open transaction with a non-empty
\* queue, has completed.
CommitDone ==
    /\ pc = "idle"
    /\ last.op = "commit_transaction"
    /\ pre.transaction
    /\ pre.queries # << >>

\* The item of the batch body that the write call w = <<method, url, data>>
\* is to give, and the batch body of the write calls ws.
ExpectedItem(w) ==
    [method |-> w[1], uri |-> w[2],
     body |-> IF w[3] = PyNone THEN EmptyDict ELSE w[3]]
ExpectedBatch(ws) ==
    [json |-> "array", obj |-> "",
     items |-> [i \in 1..Len(ws) |-> ExpectedItem(ws[i])]]

IsBatchPost(r) == r.grant = "" /\ r.method = "POST" /\ r.url = BatchUri
BatchPosts == {i \in 1..Len(net) : IsBatchPost(net[i])}
LoginFailed ==
    Len(net) >= 1 /\ net[1].grant = "password" /\ net[1].result = "error"
Refreshed ==
    {i \in 1..Len(net) :
        net[i].grant = "refresh_token" /\ net[i].result = "success"}

\* C1, as stated: N >= 1 write calls queued in an open transaction and then
\* commit_transaction give exactly one POST to /v1/batch, whose body is the
\* array of the N items {method, uri, body} in call order.
C1_ExactlyOneBatchPost ==
    CommitDone =>
        /\ Cardinality(BatchPosts) = 1
        /\ \A i \in BatchPosts : net[i].data = ExpectedBatch(pre.issued)

\* C1, amended: the commit sends no resource request but POSTs to /v1/batch,
\* each with the array of the N items {method, uri, body or empty object}
\* of the N write calls in call order as its body; it sends none when the
\* lazy login fails, and otherwise one plus one more after each successful
\* token refresh (so exactly one when no answer is a token expiry).
C1_BatchRoundTrip ==
    CommitDone =>
        /\ Len(pre.issued) >= 1
        /\ \A i \in 1..Len(net) :
              net[i].grant = "" =>
                /\ IsBatchPost(net[i])
                /\ net[i].data = ExpectedBatch(pre.issued)
                /\ Len(net[i].data.items) = Len(pre.issued)
        /\ Cardinality(BatchPosts) =
              IF LoginFailed THEN 0 ELSE 1 + Cardinality(Refreshed)

\* Two different write calls were queued and committed with one POST.
C1_Witness ==
    /\ CommitDone
    /\ Len(pre.issued) = 2
    /\ pre.issued[1] # pre.issued[2]
    /\ Cardinality(BatchPosts) = 1
    /\ last.kind = "return"

\* C2, as stated: one _do_call refreshes the token at most once and sends
\* its request at most twice, whatever the server answers.
C2_AtMostOneRefresh ==
    /\ Cardinality({i \in 1..Len(CallLog) :
                        CallLog[i].grant = "refresh_token"}) <= 1
    /\ Cardinality({i \in 1..Len(CallLog) : CallLog[i].grant = ""}) <= 2

\* The result _do_call gives for an accepted answer.
ResultOf(response) ==
    IF response.status_code = NO_CONTENT THEN None
    ELSE IF response.body.kind = "unparseable" THEN True
    ELSE MkValue("json", response.body)

\* The first request of the running _do_call was answered with a token
\* expiry at position i of its log, the refresh succeeded and the retried
\* request was accepted.
RefreshedAndRetried(i) ==
    /\ i + 2 <= Len(CallLog)
    /\ \A j \in 1..(i - 1) : CallLog[j].grant = "password"
    /\ CallLog[i].grant = "" /\ CallLog[i].result = "expired"
    /\ CallLog[i + 1].grant = "refresh_token"
    /\ CallLog[i + 1].result = "success"
    /\ CallLog[i + 2].grant = "" /\ CallLog[i + 2].result = "success"

\* C3: after a token expiry answer, a successful refresh and an accepted
\* answer to the retried request, _do_call has sent exactly one refresh and
\* then exactly one retry of the same request, and has returned the result
\* of the retried answer without raising (get_records and
\* create_primary_zone go on to subscript that result).
C3_RefreshThenRetryOnce ==
    \A i \in 1..Len(CallLog) :
        RefreshedAndRetried(i) =>
            /\ Len(CallLog) = i + 2
            /\ CallLog[i + 2].method = CallLog[i].method
            /\ CallLog[i + 2].url = CallLog[i].url
            /\ CallLog[i + 2].params = CallLog[i].params
            /\ CallLog[i + 2].data = CallLog[i].data
            /\ last.inner.kind = "return"
            /\ last.inner.value = ResultOf(CallLog[i + 2].accepted)
            /\ (pc = "idle" /\ last.op \in PassThroughOps) =>
                    last.kind = "return"

\* edit_record got a token expiry, refreshed, retried and returned the
\* body of the retried answer.
C3_Witness ==
    /\ pc = "idle"
    /\ last.op = "edit_record"
    /\ RefreshedAndRetried(1)
    /\ last.kind = "return"
    /\ last.value.t = "json"

\* C4: commit_transaction on an open transaction with a non-empty queue
\* leaves the transaction idle and the queue empty, however the batch call
\* ends.
C4_CommitClears ==
    CommitDone => ~transaction /\ queries = << >>

\* The batch call raised because the token refresh failed.
C4_Witness ==
    /\ CommitDone
    /\ last.kind = "raise"
    /\ last.exc.kind = "AuthenticationError"
    /\ ~transaction

\* C5: a read operation invoked while a transaction is open raises
\* GetInsideTransactionError at once, sends nothing, and leaves the flag,
\* the queue and the tokens as they were.
C5_ReadInsideTransaction ==
    (last.op \in ReadOps /\ pre.transaction) =>
        /\ pc = "idle"
        /\ last.kind = "raise"
        /\ last.exc.kind = "GetInsideTransactionError"
        /\ net = << >>
        /\ transaction = pre.transaction
        /\ queries = pre.queries
        /\ access_token = pre.access_token
        /\ refresh_token = pre.refresh_token

\* get_records was invoked in a transaction that had queued two operations.
C5_Witness ==
    /\ last.op = "get_records"
    /\ pre.transaction
    /\ Len(pre.queries) = 2
    /\ last.exc.kind = "GetInsideTransactionError"

\* The operation a write method queues in a transaction.
QueuedBy(op) ==
    CASE op = "create_primary_zone" ->
            [method |-> "POST", uri |-> ZonesUri, body |-> ZoneDict]
      [] op = "delete_zone" ->
            [method |-> "DELETE", uri |-> ZoneUri, body |-> EmptyDict]
      [] op = "create_record" ->
            [method |-> "POST", uri |-> RecordUri, body |-> RecordDict]
      [] op = "edit_record" ->
            [method |-> "PUT", uri |-> RecordUri, body |-> RecordDict]
      [] op = "delete_record" ->
            [method |-> "DELETE", uri |-> RecordUri, body |-> EmptyDict]

\* What C6 says of the write methods ops.
QueuesOne(ops) ==
    (last.op \in ops /\ pre.transaction) =>
        /\ pc = "idle"
        /\ last.kind = "return"
        /\ queries = Append(pre.queries, QueuedBy(last.op))
        /\ transaction
        /\ net = << >>

\* C6, as stated: a write operation (create_primary_zone, delete_zone,
\* create_record, edit_record, delete_record) invoked while a transaction
\* is open appends exactly one {method, uri, body or empty object} to the
\* tail of the queue, returns normally and sends nothing.
C6_WriteQueuesOne == QueuesOne(WriteOps)

\* The four write methods that do not read the account name do what C6
\* says.
OtherWritesQueueOne == QueuesOne(WriteOps \ {"create_primary_zone"})

\* C7: start_transaction raises TransactionAlreadyInProgressError and
\* leaves the flag and the queue as they were when a transaction is open,
\* and opens a transaction with an empty queue when none is.
C7_StartTransaction ==
    last.op = "start_transaction" =>
        /\ pc = "idle"
        /\ net = << >>
        /\ IF pre.transaction
           THEN /\ last.kind = "raise"
                /\ last.exc.kind = "TransactionAlreadyInProgressError"
                /\ transaction
                /\ queries = pre.queries
           ELSE /\ last.kind = "return"
                /\ transaction
                /\ queries = << >>

\* The second start_transaction found two different operations queued.
C7_Witness ==
    /\ last.op = "start_transaction"
    /\ pre.transaction
    /\ Len(queries) = 2
    /\ queries[1] # queries[2]
    /\ last.exc.kind = "TransactionAlreadyInProgressError"

\* C8: commit_transaction on an open transaction with an empty queue
\* raises EmptyTransactionError, sends nothing and leaves the transaction
\* open and its queue empty.
C8_EmptyCommit ==
    (last.op = "commit_transaction" /\ pre.transaction
        /\ pre.queries = << >>) =>
        /\ pc = "idle"
        /\ last.kind = "raise"
        /\ last.exc.kind = "EmptyTransactionError"
        /\ net = << >>
        /\ transaction
        /\ queries = << >>
        /\ access_token = pre.access_token
        /\ refresh_token = pre.refresh_token

\* An empty transaction was committed, and is still open.
C8_Witness ==
    /\ last.op = "commit_transaction"
    /\ pre.transaction
    /\ pre.queries = << >>
    /\ last.exc.kind = "EmptyTransactionError"
    /\ transaction

\* commit_transaction or rollback_transaction, invoked while a transaction
\* was open, has completed.
EndDone ==
    /\ pc = "idle"
    /\ last.op \in {"commit_transaction", "rollback_transaction"}
    /\ pre.transaction

\* C9, as stated: after commit_transaction or rollback_transaction invoked
\* on an open transaction has completed, the flag is false and the queue
\* is empty.
C9_EndAlwaysClears ==
    EndDone => ~transaction /\ queries = << >>

\* C9, amended: after rollback_transaction, or commit_transaction with a
\* non-empty queue, invoked on an open transaction has completed, the flag
\* is false and the queue is empty; commit_transaction with an empty queue
\* raises EmptyTransactionError and leaves the transaction open.
C9_EndClearsUnlessEmpty ==
    EndDone =>
        IF last.op = "commit_transaction" /\ pre.queries = << >>
        THEN /\ last.exc.kind = "EmptyTransactionError"
             /\ transaction
             /\ queries = << >>
        ELSE /\ ~transaction
             /\ queries = << >>

\* A transaction with queued operations was rolled back.
C9_Witness ==
    /\ EndDone
    /\ last.op = "rollback_transaction"
    /\ pre.queries # << >>
    /\ last.kind = "return"
    /\ ~transaction

\* C10: in every reachable state the queue is non-empty only while the
\* transaction flag is set.
C10_QueueOnlyWhileActive ==
    ~transaction => queries = << >>

\* A commit of queued operations has failed on an error answer and left
\* the client idle.
C10_Witness ==
    /\ pc = "idle"
    /\ ~transaction
    /\ last.op = "commit_transaction"
    /\ pre.queries # << >>
    /\ last.exc.kind = "TransactionError"
    /\ queries = << >>

\* C11: commit_transaction and rollback_transaction invoked while no
\* transaction is open raise NoActiveTransactionError at once: no request is
\* sent, and the flag, the queue and both tokens are as they were.
C11_IdleEndRaises ==
    (/\ last.op \in {"commit_transaction", "rollback_transaction"}
     /\ ~pre.transaction)
    => /\ pc = "idle"
       /\ last.kind = "raise"
       /\ last.exc.kind = "NoActiveTransactionError"
       /\ net = << >>
       /\ Snapshot = pre

\* Each of the two methods has been refused on a client that holds tokens.
C11_Witness ==
    /\ pc = "idle"
    /\ last.op \in {"commit_transaction", "rollback_transaction"}
    /\ ~pre.transaction
    /\ last.exc.kind = "NoActiveTransactionError"
    /\ access_token # EmptyToken

\* C12: rollback_transaction invoked on an open transaction returns with
\* the queue empty and the transaction closed without sending a request;
\* and whatever batch is sent at any time holds the write calls issued in
\* the transaction being committed and nothing else, so that nothing
\* queued before a rollback is ever sent.
C12_RollbackDiscards ==
    /\ (last.op = "rollback_transaction" /\ pre.transaction)
       => /\ pc = "idle"
          /\ last.kind = "return"
          /\ last.value = None
          /\ net = << >>
          /\ ~transaction
          /\ queries = << >>
          /\ issued = << >>
    /\ \A i \in BatchPosts :
          /\ last.op = "commit_transaction"
          /\ net[i].data = ExpectedBatch(pre.issued)

\* A rollback has discarded a non-empty queue.
C12_Witness ==
    /\ pc = "idle"
    /\ last.op = "rollback_transaction"
    /\ pre.transaction
    /\ Len(pre.queries) = MaxQueue
    /\ queries = << >>

\* The last request of the method invoked last was a resource request, and
\* answer is what the server answered to it.
ResourceAnswered ==
    /\ pc = "idle"
    /\ net # << >>
    /\ net[Len(net)].grant = ""
    /\ answer # NoResponse

\* The lazy login of the method invoked last failed on the answer answer.
LoginAnswered ==
    /\ pc = "idle"
    /\ net # << >>
    /\ net[Len(net)].grant = "password"
    /\ net[Len(net)].result = "error"

\* _do_call gave answer to _handle_error: an error answer to a request made
\* outside a transaction that is no token expiry, or the answer that
\* refused the lazy login.
Decoded ==
    \/ /\ ResourceAnswered
       /\ ~pre.transaction
       /\ _is_error(answer)
       /\ ~(/\ answer.status_code = UNAUTHORIZED
            /\ answer.body.kind = "object"
            /\ answer.body.has = "error"
            /\ answer.body.code = ERR_CODE_AUTH_TOKEN_EXPIRED)
    \/ LoginAnswered

\* C13, as stated: when the body of a decoded error answer is JSON but
\* neither array nor object, the message of the error raised is exactly
\* "HTTP-level error. HTTP code: <status>; response body: <content>"; so it
\* is for create_primary_zone answered 504 with empty content.
C13_HTTPLevelMessage ==
    /\ (Decoded /\ answer.body.kind = "scalar")
       => /\ last.kind = "raise"
          /\ last.exc.message = <<"HTTP-level error. HTTP code: ",
                                  ToString(answer.status_code),
                                  "; response body: ", answer.body.content>>
    /\ (/\ Decoded
        /\ last.op = "create_primary_zone"
        /\ answer.status_code = GATEWAY_TIMEOUT
        /\ answer.body.kind = "scalar"
        /\ answer.body.content = "")
       => /\ last.kind = "raise"
          /\ last.exc.message = <<"HTTP-level error. HTTP code: ", "504",
                                  "; response body: ", "">>

\* C14, as stated: every error answer to a resource request whose body
\* cannot be parsed as JSON makes _do_call raise HTTPLevelError, whatever
\* the status (401 included) and whether or not a transaction is open.
C14_UnparseableIsHTTPLevel ==
    (/\ ResourceAnswered
     /\ _is_error(answer)
     /\ answer.body.kind = "unparseable")
    => /\ last.inner.kind = "raise"
       /\ last.inner.exc.kind = "HTTPLevelError"

\* A decoded answer whose body is a JSON object, or an array whose element
\* 0 is one, with errorCode and errorMessage.
DecodedTable ==
    /\ Decoded
    /\ answer.body.kind \in {"object", "array"}
    /\ answer.body.has = "error"

\* The error kinds the claim's table gives the wire codes.
C15_Table(code) ==
    CASE code = 1801 -> "ZoneNotFoundError"
      [] code = 1802 -> "ZoneAlreadyExistsError"
      [] code = 8001 -> "PermissionDeniedError"
      [] code = 2111 -> "RecordAlreadyExistsError"
      [] code \in {70002, 56001} -> "RecordsNotFoundError"
      [] OTHER -> "DNSError"

\* C15, as stated: _do_call raises the kind the table gives the errorCode
\* of the decoded body, and for every code the table does not list a
\* DNSError whose message is "<code>: <errorMessage>".
C15_EveryOtherCodeGeneric ==
    DecodedTable =>
        /\ last.inner.kind = "raise"
        /\ last.inner.exc.kind = C15_Table(answer.body.code)
        /\ last.inner.exc.message =
              IF C15_Table(answer.body.code) = "DNSError"
              THEN <<ToString(answer.body.code), ": ", answer.body.msg>>
              ELSE <<answer.body.msg>>

\* C15, amended: as stated, but the code 111222333, which the table of the
\* program lists for its own HTTP-level errors, gives HTTPLevelError with
\* the errorMessage as its message when a server sends it.
C15_DecoderTable ==
    DecodedTable =>
        /\ last.inner.kind = "raise"
        /\ last.inner.exc.kind =
              IF answer.body.code = 111222333 THEN "HTTPLevelError"
              ELSE C15_Table(answer.body.code)
        /\ last.inner.exc.message =
              IF /\ C15_Table(answer.body.code) = "DNSError"
                 /\ answer.body.code # 111222333
              THEN <<ToString(answer.body.code), ": ", answer.body.msg>>
              ELSE <<answer.body.msg>>

\* delete_record was refused with the code 56001 in element 0 of an array
\* body, and RecordsNotFoundError reached its caller.
C15_Witness ==
    /\ DecodedTable
    /\ answer.body.kind = "array"
    /\ answer.body.code = 56001
    /\ last.inner.exc.kind = "RecordsNotFoundError"
    /\ last.op = "delete_record"

\* C16, as stated: whenever the batch POST of commit_transaction is
\* answered with status >= 400 and the answer is no token expiry, the
\* commit raises TransactionError with the errorMessage of each element of
\* the body's errors array, in order, as its errors.
C16_BatchErrorIsTransactionError ==
    (/\ CommitDone
     /\ ResourceAnswered
     /\ _is_error(answer)
     /\ is_auth_token_expired(answer) # "True")
    => /\ last.kind = "raise"
       /\ last.exc.kind = "TransactionError"
       /\ last.exc.errors = answer.body.errors

\* C17: a fresh client has no token and has sent nothing; a method invoked
\* without a token sends the password-grant POST to the token endpoint as
\* its first request, before any resource request, which then carries the
\* token obtained; and no other request of any method is a password-grant
\* login, so that none is sent while the client holds a token.
C17_LazyLoginOnce ==
    /\ last.op = "__init__"
       => (access_token = EmptyToken /\ net = << >> /\ pc = "idle")
    /\ (pre.access_token = EmptyToken /\ net # << >>)
       => /\ net[1].grant = "password"
          /\ net[1].method = "POST"
          /\ net[1].url = TokenUri
          /\ Len(net) >= 2
             => /\ net[1].result = "success"
                /\ net[2].grant = ""
                /\ net[2].auth # EmptyToken
    /\ \A i \in 1..Len(net) :
          net[i].grant = "password"
          => (i = 1 /\ pre.access_token = EmptyToken)
    /\ access_token = EmptyToken => pre.access_token = EmptyToken

\* A method invoked on a client without a token logged in first, sent its
\* request with the token obtained and returned.
C17_Witness ==
    /\ pc = "idle"
    /\ pre.access_token = EmptyToken
    /\ Len(net) = 2
    /\ net[1].grant = "password"
    /\ net[2].grant = ""
    /\ net[2].auth = access_token
    /\ last.kind = "return"

\* The refresh of the method invoked last was refused with answer.
RefreshAnswered ==
    /\ pc = "idle"
    /\ net # << >>
    /\ net[Len(net)].grant = "refresh_token"
    /\ net[Len(net)].result = "error"

\* C18, as stated: when the token refresh is answered with a non-OK
\* response, _do_call raises AuthenticationError carrying the body of that
\* response, and the request is not sent again.
C18_RefreshFailureIsAuthenticationError ==
    (RefreshAnswered /\ _is_error(answer))
    => /\ last.inner.kind = "raise"
       /\ last.inner.exc.kind = "AuthenticationError"
       /\ last.inner.exc.body = answer.body
       /\ Len(CallLog) >= 2
       /\ CallLog[Len(CallLog) - 1].grant = ""
       /\ CallLog[Len(CallLog) - 1].result = "expired"

\* The error classes of ultradns.exceptions that _handle_error raises.
DecoderKinds ==
    {"DNSError", "HTTPLevelError", "ZoneNotFoundError",
     "ZoneAlreadyExistsError", "PermissionDeniedError",
     "RecordAlreadyExistsError", "RecordsNotFoundError"}

\* C19, as stated: when the lazy login is answered with a non-OK response,
\* _do_call raises one of the typed errors of the error decoder, the one
\* _handle_error gives for that response, and the resource request is not
\* sent.
C19_LoginFailureIsDecoded ==
    (LoginAnswered /\ _is_error(answer))
    => /\ last.inner.kind = "raise"
       /\ last.inner.exc.kind \in DecoderKinds
       /\ last.inner.exc = _handle_error(answer)
       /\ Len(net) = 1

\* C20: get_records invoked outside a transaction, with or without a record
\* type, returns an empty list whenever its _do_call raised
\* RecordsNotFoundError, as it does for the wire codes 70002 and 56001; any
\* other exception of its _do_call reaches the caller unchanged.
C20_GetRecordsSwallowsNotFound ==
    (/\ pc = "idle"
     /\ last.op = "get_records"
     /\ ~pre.transaction)
    => /\ (DecodedTable /\ answer.body.code \in {70002, 56001})
          => last.inner.exc.kind = "RecordsNotFoundError"
       /\ last.inner.kind = "raise"
          => IF last.inner.exc.kind = "RecordsNotFoundError"
             THEN last.kind = "return" /\ last.value = EmptyList
             ELSE /\ last.kind = "raise"
                  /\ last.exc = last.inner.exc
                  /\ last.exc.kind # "RecordsNotFoundError"

\* get_records with a record type was answered with the code 56001 and
\* returned the empty list.
C20_Witness ==
    /\ pc = "idle"
    /\ last.op = "get_records"
    /\ ResourceAnswered
    /\ net[Len(net)].url = RRSetsTypeUri
    /\ answer.body.code = 56001
    /\ last.kind = "return"
    /\ last.value = EmptyList

\* The same request as r but for its token and its answer.
SameRequest(r, q) ==
    /\ q.grant = r.grant
    /\ q.method = r.method
    /\ q.url = r.url
    /\ q.params = r.params
    /\ q.data = r.data

\* commit_transaction, invoked on an open transaction with a non-empty
\* queue, is running or has completed.
Committing ==
    /\ last.op = "commit_transaction"
    /\ pre.transaction
    /\ pre.queries # << >>

\* C21: when the batch POST of commit_transaction is answered with a token
\* expiry, the next request is the refresh and, when that is accepted, the
\* same batch POST again, no TransactionError being raised for the expiry
\* answer; and as long as the call of the commit runs, the retried call
\* included, the transaction is open with its queue as it was.
C21_ExpiryBeforeTransactionError ==
    Committing =>
        /\ \A i \in 1..Len(net) :
              net[i].result = "expired"
              => /\ IsBatchPost(net[i])
                 /\ i < Len(net)
                 /\ net[i + 1].grant = "refresh_token"
                 /\ (net[i + 1].result = "success" /\ i + 2 <= Len(net))
                    => /\ SameRequest(net[i], net[i + 2])
                       /\ net[i + 2].data = ExpectedBatch(pre.issued)
                 /\ (net[i + 1].result = "success" /\ i + 2 > Len(net))
                    => pc = "do_call"
        /\ pc = "do_call" => (transaction /\ queries = pre.queries)
        /\ pc = "idle" => (~transaction /\ queries = << >>)
        /\ (pc = "idle" /\ last.exc.kind = "TransactionError")
           => /\ net[Len(net)].grant = ""
              /\ net[Len(net)].result = "error"

\* A commit whose batch POST was answered with a token expiry refreshed,
\* sent the batch again and returned, the transaction being closed then.
C21_Witness ==
    /\ pc = "idle"
    /\ Committing
    /\ Len(net) = 3
    /\ net[1].result = "expired"
    /\ net[2].grant = "refresh_token"
    /\ net[3].result = "success"
    /\ last.kind = "return"
    /\ ~transaction

\* isTokenExpired of the spec: status 401, a JSON object, errorCode 60001.
IsTokenExpiry(response) ==
    /\ response.status_code = 401
    /\ response.body.kind = "object"
    /\ response.body.has = "error"
    /\ response.body.code = 60001

\* C22: _do_call refreshes exactly after an answer of status 401 whose body
\* is a JSON object with errorCode 60001: it calls itself only after such an
\* answer and an accepted refresh, every refresh follows such an answer,
\* such an answer is always followed by a refresh, and every other error
\* answer ends the call with an exception and no refresh.
C22_RefreshIffExpiry ==
    /\ (pc = "do_call" /\ depth > 0)
       => /\ IsTokenExpiry(answer)
          /\ Len(CallLog) >= 2
          /\ net[Len(net)].grant = "refresh_token"
          /\ net[Len(net)].result = "success"
          /\ net[Len(net) - 1].result = "expired"
    /\ \A i \in 1..Len(net) :
          /\ net[i].grant = "refresh_token"
             => (i > 1 /\ net[i - 1].grant = "" /\ net[i - 1].result = "expired")
          /\ net[i].result = "expired"
             => (i < Len(net) /\ net[i + 1].grant = "refresh_token")
    /\ (ResourceAnswered /\ _is_error(answer))
       => /\ ~IsTokenExpiry(answer)
          /\ net[Len(net)].result = "error"
          /\ last.inner.kind = "raise"

\* A 401 answer with errorCode 60001 in an array body was decoded as an
\* ordinary error, the call having sent nothing but its one request.
C22_Witness ==
    /\ ResourceAnswered
    /\ answer.status_code = UNAUTHORIZED
    /\ answer.body.kind = "array"
    /\ answer.body.code = ERR_CODE_AUTH_TOKEN_EXPIRED
    /\ pre.access_token # EmptyToken
    /\ Len(net) = 1
    /\ last.exc.kind = "DNSError"

\* C23, as stated: a GET or DELETE request sent for a call made outside a
\* transaction has no body, and a POST or PUT request sent for one has the
\* JSON text of the body given to the call.
C23_BodyByMethod ==
    \A i \in 1..Len(net) :
        (net[i].grant = "" /\ ~IsBatchPost(net[i]))
        => IF net[i].method \in {"GET", "DELETE"}
           THEN net[i].data = NoData
           ELSE /\ net[i].method \in {"POST", "PUT"}
                /\ net[i].data.json = "object"
                /\ net[i].data.obj \in {RecordDict, ZoneDict}

\* C24: the result of a _do_call is that of the answer to its last request
\* alone: None for status 204; for any other status below 400 the decoded
\* body, or True when the body does not parse; and _do_call never raises
\* on such an answer, nor does a method that hands the result on.
C24_ResultFromFinalResponse ==
    (ResourceAnswered /\ answer.status_code < 400)
    => /\ last.inner.kind = "return"
       /\ last.inner.value = ResultOf(answer)
       /\ answer.status_code = 204 => last.inner.value = None
       /\ (answer.status_code # 204 /\ answer.body.kind = "unparseable")
          => last.inner.value = True
       /\ last.op \in PassThroughOps => last.kind = "return"
       /\ last.op \in {"get_zones_of_account", "get_zone_metadata",
                       "get_account_details", "version", "status",
                       "edit_record", "delete_record", "commit_transaction"}
          => last.value = last.inner.value

\* A call whose first request met a token expiry was answered 204 with a
\* body that parses on the retry, and returned None.
C24_Witness ==
    /\ ResourceAnswered
    /\ Len(net) = 3
    /\ net[1].result = "expired"
    /\ answer.status_code = NO_CONTENT
    /\ answer.body.kind = "object"
    /\ last.kind = "return"
    /\ last.value = None
    /\ last.op = "version"

\* The requests of the method invoked last that obtained tokens.
TokenGrants ==
    {i \in 1..Len(net) : net[i].grant # "" /\ net[i].result = "success"}

C26_OnlyBatchWhileOpen ==
    /\ pc = "do_call"
       => /\ transaction = pre.transaction
          /\ transaction
             => /\ call.op = "commit_transaction"
                /\ call.url = BatchUri
                /\ Upper(call.method) = "POST"
    /\ \A i \in 1..Len(net) :
          (pre.transaction /\ net[i].grant = "")
          => (IsBatchPost(net[i]) /\ last.op = "commit_transaction")
    /\ (\/ last.exc.kind = "TransactionError"
        \/ last.inner.exc.kind = "TransactionError")
       => /\ last.op = "commit_transaction"
          /\ pre.transaction
          /\ ResourceAnswered
          /\ IsBatchPost(net[Len(net)])

\* A commit whose one batch POST was refused with two error messages has
\* raised TransactionError with both.
C26_Witness ==
    /\ pc = "idle"
    /\ last.op = "commit_transaction"
    /\ Len(net) = 1
    /\ IsBatchPost(net[1])
    /\ last.exc.kind = "TransactionError"
    /\ Len(last.exc.errors) = 2

\* C27, as stated: the resource request sent last carries the access
\* token stored; the request sent after an accepted refresh is the request
\* before the refresh again; and a token answered with a token expiry is
\* carried by no later request of the method.
C27_ExpiredTokenNeverResent ==
    /\ (net # << >> /\ net[Len(net)].grant = "")
       => net[Len(net)].auth = access_token
    /\ \A i \in 1..Len(net) :
          (/\ net[i].result = "expired"
           /\ i + 2 <= Len(net)
           /\ net[i + 1].result = "success")
          => SameRequest(net[i], net[i + 2])
    /\ \A i \in 1..Len(net) : \A j \in (i + 1)..Len(net) :
          (net[i].result = "expired" /\ net[j].grant = "")
          => net[j].auth # net[i].auth

\* The requests a step sends.
SentByStep == SubSeq(net', Len(net) + 1, Len(net'))

\* C27, amended: every resource request carries the access token stored
\* when it is sent: the token stored before the step when nothing
\* precedes it in the step, the token of the login otherwise, which is
\* the token still stored after the step unless a refresh follows; and
\* the request sent after an accepted refresh is the request before the
\* refresh again, carrying the token the refresh has stored, whether or
\* not that differs from the one answered with the token expiry.
C27_CarriesStoredToken ==
    [][\A i \in 1..Len(SentByStep) :
          SentByStep[i].grant = ""
          => /\ SentByStep[i].auth # EmptyToken
             /\ i = 1 => SentByStep[i].auth = access_token
             /\ i > 1 => /\ i = 2
                         /\ SentByStep[1].grant = "password"
                         /\ access_token = EmptyToken
             /\ (\A j \in (i + 1)..Len(SentByStep) :
                    SentByStep[j].result # "success")
                => SentByStep[i].auth = access_token'
             /\ depth > 0
                => /\ i = 1
                   /\ net[Len(net)].grant = "refresh_token"
                   /\ SameRequest(net[Len(net) - 1], SentByStep[i])]_vars

\* The request answered with a token expiry was sent again after the
\* refresh with the other token, the one now stored, and accepted.
C27_Witness ==
    /\ pc = "idle"
    /\ Len(net) = 3
    /\ net[1].result = "expired"
    /\ net[2].grant = "refresh_token"
    /\ net[3].result = "success"
    /\ SameRequest(net[1], net[3])
    /\ net[3].auth # net[1].auth
    /\ net[3].auth = access_token

\* The transaction error the method invoked last raised before it sent
\* anything, "" when it raised none.
RaisedLocally ==
    IF pc = "idle" /\ last.inner = Running /\ last.kind = "raise"
    THEN last.exc.kind
    ELSE ""

\* C28, as stated: given the same calls, the two clients have the same
\* flag and the same queue length whenever a call has ended, and each call
\* is refused with the same transaction error by both or by neither.
C28_SameTransactionMachine ==
    [][/\ pc' = "idle"
          => /\ you_transaction' = transaction'
             /\ Len(you_queries') = Len(queries')
       /\ pc = "idle" => you_raises(last'.op) = RaisedLocally']_vars

====
